---- MODULE Spec2Model ----
(***************************************************************************)
(* Document lifecycle tracker of the credit-analysis backend               *)
(* (backend/server.js): the in-memory job table documentStatus, the store  *)
(* of merged records extractedData, the HTTP handlers /upload,             *)
(* /process/:id and /status/:id, and the background pipeline               *)
(* processDocumentAsync, one action per handler and one per resumption of  *)
(* the pipeline after an await.                                            *)
(***************************************************************************)
EXTENDS Integers, Naturals, Sequences, FiniteSets, TLC

(* ---------------------------------------------------------------------- *)
(* Bounds of the model                                                     *)
(* ---------------------------------------------------------------------- *)
MaxDocs == 1
MaxRuns == 2
MaxPages == 3

(* ---------------------------------------------------------------------- *)
(* Program constants                                                       *)
(* ---------------------------------------------------------------------- *)
\* upload.array('documents', 10)
UploadLimit == 10

(* ---------------------------------------------------------------------- *)
(* Values                                                                  *)
(* ---------------------------------------------------------------------- *)
\* uuidv4() values handed out by /upload, in order of creation
DocIds == 1..MaxDocs
\* ids a client may put in a URL: the known ones and one that is never issued
RequestIds == 1..(MaxDocs + 1)
RunIds == 1..MaxRuns

\* upload.fileFilter: the media types that pass the filter, by class
MimeTypes == {"application/pdf", "image/jpeg", "application/msword"}

\* A progress value is a JavaScript number; the values the code computes are
\* rationals, kept here in lowest terms as num/den.
RECURSIVE GCD(_, _)
GCD(a, b) == IF b = 0 THEN a ELSE GCD(b, a % b)

Rat(num, den) == [num |-> num \div GCD(num, den), den |-> den \div GCD(num, den)]
Num(k) == Rat(k, 1)
RatLess(p, q) == p.num * q.den < q.num * p.den
RatLeq(p, q) == p.num * q.den <= q.num * p.den
IsInteger(p) == p.den = 1

\* docInfo.progress = 40 + (50 * (i + 1) / images.length)
PageProgressRemaining(i, n) == Rat(40 * n + 50 * (n - i - 1), n)

PageProgress(i, n) == Rat(40 * n + 50 * (i + 1), n)

\* error.message of the errors the pipeline can raise
ConvertError == "Failed to convert document"
TransportError == "No response from Ollama server"
ExtractTypeError == "Failed to extract data from image"
CombineTypeError == "individuals is not iterable"

\* docInfo.error is undefined until a run fails
NoError == ""


(* ---------------------------------------------------------------------- *)
(* External collaborators, by the outcomes the pipeline distinguishes      *)
(* ---------------------------------------------------------------------- *)
\* What one call of the vision model can produce for a page:
\*   "transport_error"  the HTTP call fails
\*   "object"           text that the recovery cascade parses to a JSON object
\*   "badlist"          as "object", but personalInfo.individuals is a number
\*   "null"             text that parses to the JSON value null
\*   "garbage"          text on which every recovery strategy fails
ModelOutcomes == {"transport_error", "object", "badlist", "null", "garbage"}

\* parseJsonFromResponse, by class of text: the class of the value returned,
\* or "RecoveryFailed" when it throws after the last strategy
ParseClass(text) ==
  CASE text = "object" -> "object"
    [] text = "badlist" -> "object"
    [] text = "null" -> "null"
    [] OTHER -> "RecoveryFailed"

\* The record of one page, tagged with the call that produced it.
\* parseError is set on the default structure only; badList marks a parsed
\* object whose individuals field cannot be spread.
PageRecord(r, p, parseError, badList) ==
  [run |-> r, page |-> p, parseError |-> parseError, badList |-> badList]

NoRecord == PageRecord(0, 0, FALSE, FALSE)

\* OllamaService.extractDataFromImage(images[p]) of run r, given the outcome
\* of the model call: either throws (threw, message) or returns a record.
ExtractDataFromImage(r, p, outcome) ==
  IF outcome = "transport_error"
  THEN [threw |-> TRUE, message |-> TransportError, record |-> NoRecord]
  ELSE IF ParseClass(outcome) = "RecoveryFailed"
  THEN \* inner catch: "Return a default structure if parsing fails"
       [threw |-> FALSE, message |-> NoError,
        record |-> PageRecord(r, p, TRUE, FALSE)]
  ELSE IF ParseClass(outcome) = "null"
  THEN \* extractedData.extractionDate on null: TypeError, outer catch rethrows
       [threw |-> TRUE, message |-> ExtractTypeError, record |-> NoRecord]
  ELSE [threw |-> FALSE, message |-> NoError,
        record |-> PageRecord(r, p, FALSE, outcome = "badlist")]

\* placeholder where no merged record is present
NoData == [pageCount |-> 0, pages |-> <<>>]

\* DocumentProcessor.combineExtractedData(extractedResults, filename), as far
\* as the tracker depends on it: the merged record keeps the page count and
\* the page records in the order given; spreading a non-iterable throws.
CombineExtractedData(extractedResults) ==
  IF \E k \in 1..Len(extractedResults) : extractedResults[k].badList
  THEN [threw |-> TRUE, message |-> CombineTypeError,
        combined |-> NoData]
  ELSE [threw |-> FALSE, message |-> NoError,
        combined |-> [pageCount |-> Len(extractedResults),
                      pages |-> extractedResults]]

\* DocumentProcessor.convertToImages: the page counts it can return for a
\* media type (it throws instead of returning an empty list)
PageCounts(mimetype) ==
  CASE mimetype = "application/pdf" -> 1..MaxPages
    [] mimetype = "image/jpeg" -> {1}
    [] OTHER -> {}

(* ---------------------------------------------------------------------- *)
(* State                                                                   *)
(* ---------------------------------------------------------------------- *)
VARIABLES
  documentStatus,  \* Map id -> docInfo
  extractedData,   \* Map id -> merged record
  runs,            \* activations of processDocumentAsync, by order of start
  event,           \* what the last step sent out: HTTP response or log line
  call             \* the call of a service method under study, if any

vars == <<documentStatus, extractedData, runs, event, call>>

\* the server's own state
server == <<documentStatus, extractedData, runs, event>>

\* no service method is being called on its own
NoCall == [fn |-> "none"]

\* what a step sends out: the HTTP status code of a handler's response
\* (op "upload", "process", "status"), or a console line of the pipeline
\* (op "page", "completed", "failed", "cleaned", with code 0); a "failed"
\* line prints the error, every other event has no detail
EventWith(op, id, code, detail) ==
  [op |-> op, id |-> id, code |-> code, detail |-> detail]

Event(op, id, code) == EventWith(op, id, code, "")

\* Map.get(id): the value stored under id, if any (a list of length 0 or 1)
GetOrCreate(map, id, fresh) ==
  IF id \in DOMAIN map THEN <<map[id]>> ELSE <<fresh>>

Get(map, id, fresh) == IF id \in DOMAIN map THEN <<map[id]>> ELSE <<>>

\* Map.set(id, value)
Set(map, id, value) == (id :> value) @@ map

Jobs == DOMAIN documentStatus
Started == DOMAIN runs

\* a run is active from its start until processDocumentAsync has returned
Active(r) == r \in Started /\ runs[r].pc # "returned"
ActiveRuns(id) == {r \in Started : runs[r].doc = id /\ Active(r)}

Init ==
  /\ documentStatus = <<>>
  /\ extractedData = <<>>
  /\ runs = <<>>
  /\ event = Event("listen", 0, 0)
  /\ call = NoCall


(* ---------------------------------------------------------------------- *)
(* Writes to a job's docInfo                                               *)
(* ---------------------------------------------------------------------- *)
\* /upload: documentStatus.set(documentId, {status: 'pending', progress: 0})
NewDocInfo(mimetype) ==
  [mimetype |-> mimetype, status |-> "pending", progress |-> Num(0),
   error |-> NoError]

\* /process/:id: "Update status to processing"
AcceptedInfo(docInfo) ==
  [docInfo EXCEPT !.status = "processing", !.progress = Num(10)]

\* processDocumentAsync before its first await: docInfo.progress = 20
ConvertingInfo(docInfo) == [docInfo EXCEPT !.progress = Num(20)]

\* after convertToImages: docInfo.progress = 40
ConvertedInfo(docInfo) == [docInfo EXCEPT !.progress = Num(40)]

\* after page i of n: docInfo.progress = 40 + (50 * (i + 1) / images.length)
PageDoneInfo(docInfo, i, n) == [docInfo EXCEPT !.progress = PageProgress(i, n)]

\* after the merge: progress 95, then "Mark as completed"
CompletedInfo(docInfo) ==
  [[docInfo EXCEPT !.progress = Num(95)]
     EXCEPT !.status = "completed", !.progress = Num(100)]

\* catch (error): status 'error', error.message, progress 0
FailedInfoStillProcessing(docInfo, message) == docInfo

FailedInfoKeepProgress(docInfo, message) ==
  [docInfo EXCEPT !.status = "error", !.error = message]

FailedInfo(docInfo, message) ==
  [docInfo EXCEPT !.status = "error", !.error = message, !.progress = Num(0)]

\* extractedData.set(documentId, combinedData)
StoreExtractedSkipped(store, id, combined) == store

StoreExtracted(store, id, combined) == Set(store, id, combined)

\* the pages whose extraction is started when the loop reaches index i of n
NextPagesAllAtOnce(i, n) == IF i = 0 THEN 0..(n - 1) ELSE {}

NextPages(i, n) == IF i < n THEN {i} ELSE {}

\* the guard of /process/:id that answers 409
AlreadyProcessingNever(docInfo) == FALSE

AlreadyProcessing(docInfo) == docInfo.status = "processing"

(* ---------------------------------------------------------------------- *)
(* HTTP handlers                                                           *)
(* ---------------------------------------------------------------------- *)
\* GET /status/:id: the response for the current state
StatusResponse(id) ==
  IF Len(Get(documentStatus, id, NewDocInfo("application/pdf"))) = 0
  THEN [code |-> 404, status |-> "", progress |-> Num(0), error |-> NoError,
        hasData |-> FALSE, extracted_data |-> NoData]
  ELSE LET docInfo == Get(documentStatus, id, NewDocInfo("application/pdf"))[1]
           withData == docInfo.status = "completed" /\ id \in DOMAIN extractedData
       IN [code |-> 200, status |-> docInfo.status,
           progress |-> docInfo.progress, error |-> docInfo.error,
           hasData |-> withData,
           extracted_data |-> IF withData THEN extractedData[id] ELSE NoData]

Status(id) ==
  /\ event' = Event("status", id, StatusResponse(id).code)
  /\ UNCHANGED <<documentStatus, extractedData, runs>>

\* POST /upload with the given files (their media types)
Upload(files) ==
  IF Len(files) = 0
  THEN /\ event' = Event("upload", 0, 400)
       /\ UNCHANGED <<documentStatus, extractedData, runs>>
  ELSE LET first == Cardinality(Jobs) + 1
           last == Cardinality(Jobs) + Len(files)
       IN /\ last <= MaxDocs
          /\ documentStatus' =
               [id \in Jobs \cup (first..last) |->
                  IF id \in Jobs THEN documentStatus[id]
                  ELSE NewDocInfo(files[id - first + 1])]
          /\ event' = Event("upload", first, 200)
          /\ UNCHANGED <<extractedData, runs>>

\* a fresh activation of processDocumentAsync, suspended in convertToImages
NewRun(id) ==
  [doc |-> id, pc |-> "convert", n |-> 0, i |-> 0, inflight |-> {},
   extractedResults |-> <<>>]

\* POST /process/:id, with the synchronous head of processDocumentAsync
Process(id) ==
  LET found == Get(documentStatus, id, NewDocInfo("application/pdf"))
  IN IF Len(found) = 0
     THEN /\ event' = Event("process", id, 404)
          /\ UNCHANGED <<documentStatus, extractedData, runs>>
     ELSE IF AlreadyProcessing(found[1])
     THEN /\ event' = Event("process", id, 409)
          /\ UNCHANGED <<documentStatus, extractedData, runs>>
     ELSE LET r == Cardinality(Started) + 1
          IN /\ r <= MaxRuns
             /\ documentStatus' =
                  Set(documentStatus, id, ConvertingInfo(AcceptedInfo(found[1])))
             /\ runs' = Set(runs, r, NewRun(id))
             /\ event' = Event("process", id, 200)
             /\ UNCHANGED extractedData

(* ---------------------------------------------------------------------- *)
(* processDocumentAsync, one action per resumption after an await          *)
(* ---------------------------------------------------------------------- *)
\* an activation that has returned, with the page count and the loop index
\* it had reached
Returned(id, n, i) ==
  [doc |-> id, pc |-> "returned", n |-> n, i |-> i, inflight |-> {},
   extractedResults |-> <<>>]

\* an activation suspended in cleanupImages(images); images is its only live local
CleaningUp(id, n) ==
  [doc |-> id, pc |-> "cleanup", n |-> n, i |-> n, inflight |-> {},
   extractedResults |-> <<>>]

\* the catch block: the job is marked error and the function returns
Fail(r, message) ==
  LET id == runs[r].doc
  IN /\ documentStatus' =
          [documentStatus EXCEPT ![id] = FailedInfo(documentStatus[id], message)]
     /\ runs' = [runs EXCEPT ![r] = Returned(id, runs[r].n, runs[r].i)]
     /\ event' = EventWith("failed", id, 0, message)
     /\ UNCHANGED extractedData

\* await convertToImages(...) rejects
ConvertThrows(r) ==
  /\ r \in Started
  /\ runs[r].pc = "convert"
  /\ Fail(r, ConvertError)

\* await convertToImages(...) resolves with n images; the loop starts page 0
ConvertReturns(r, n) ==
  /\ r \in Started
  /\ runs[r].pc = "convert"
  /\ n \in PageCounts(documentStatus[runs[r].doc].mimetype)
  /\ LET id == runs[r].doc
     IN /\ documentStatus' =
             [documentStatus EXCEPT ![id] = ConvertedInfo(documentStatus[id])]
        /\ runs' = [runs EXCEPT ![r].pc = "extract", ![r].n = n,
                                ![r].inflight = NextPages(0, n)]
        /\ event' = Event("page", id, 0)
        /\ UNCHANGED extractedData

\* the tail of the try block, after the loop: merge, store, mark completed,
\* then suspend in cleanupImages
Finish(r, id, results, docInfo) ==
  LET merged == CombineExtractedData(results)
  IN IF merged.threw
     THEN /\ documentStatus' =
               [documentStatus EXCEPT ![id] = FailedInfo(docInfo, merged.message)]
          /\ runs' = [runs EXCEPT ![r] = Returned(id, runs[r].n, runs[r].n)]
          /\ event' = EventWith("failed", id, 0, merged.message)
          /\ UNCHANGED extractedData
     ELSE /\ extractedData' = StoreExtracted(extractedData, id, merged.combined)
          /\ documentStatus' =
               [documentStatus EXCEPT ![id] = CompletedInfo(docInfo)]
          /\ runs' = [runs EXCEPT ![r] = CleaningUp(id, runs[r].n)]
          /\ event' = Event("completed", id, 0)

\* await extractDataFromImage(images[p]) settles, given the model's outcome
ExtractSettles(r, p, outcome) ==
  /\ r \in Started
  /\ runs[r].pc = "extract"
  /\ p \in runs[r].inflight
  /\ LET id == runs[r].doc
         i == runs[r].i
         n == runs[r].n
         result == ExtractDataFromImage(r, p, outcome)
         results == Append(runs[r].extractedResults, result.record)
         docInfo == PageDoneInfo(documentStatus[id], i, n)
     IN IF result.threw
        THEN Fail(r, result.message)
        ELSE IF i + 1 < n
        THEN /\ documentStatus' = [documentStatus EXCEPT ![id] = docInfo]
             /\ runs' = [runs EXCEPT
                           ![r].i = i + 1,
                           ![r].extractedResults = results,
                           ![r].inflight =
                              (runs[r].inflight \ {p}) \cup NextPages(i + 1, n)]
             /\ event' = Event("page", id, 0)
             /\ UNCHANGED extractedData
        ELSE Finish(r, id, results, docInfo)

\* how await cleanupImages(images) can settle: it catches every error itself
CleanupOutcomesRejecting == {"resolved", "rejected"}

CleanupOutcomes == {"resolved"}

\* await cleanupImages(images) settles and processDocumentAsync returns
CleanupSettles(r, outcome) ==
  /\ r \in Started
  /\ runs[r].pc = "cleanup"
  /\ outcome \in CleanupOutcomes
  /\ IF outcome = "rejected"
     THEN Fail(r, "Cleanup error")
     ELSE /\ runs' = [runs EXCEPT ![r] = Returned(runs[r].doc, runs[r].n, runs[r].n)]
          /\ event' = Event("cleaned", runs[r].doc, 0)
          /\ UNCHANGED <<documentStatus, extractedData>>

(* ---------------------------------------------------------------------- *)
(* Specification                                                           *)
(* ---------------------------------------------------------------------- *)
Min(a, b) == IF a < b THEN a ELSE b

\* the two ways an awaited promise settles
SettleKinds == {"resolved", "rejected"}

\* the file lists of one upload request, by media type
FileLists == UNION {[1..k -> MimeTypes] : k \in 0..Min(UploadLimit, MaxDocs)}

Next ==
  \/ \E files \in FileLists : Upload(files) /\ UNCHANGED call
  \/ \E id \in RequestIds : Process(id) /\ UNCHANGED call
  \/ \E id \in RequestIds : Status(id) /\ UNCHANGED call
  \/ \E r \in RunIds : ConvertThrows(r) /\ UNCHANGED call
  \/ \E r \in RunIds, n \in 1..MaxPages :
       ConvertReturns(r, n) /\ UNCHANGED call
  \/ \E r \in RunIds, p \in 0..(MaxPages - 1), outcome \in ModelOutcomes :
       ExtractSettles(r, p, outcome) /\ UNCHANGED call
  \/ \E r \in RunIds, outcome \in SettleKinds :
       CleanupSettles(r, outcome) /\ UNCHANGED call

Spec == Init /\ [][Next]_vars


(* ---------------------------------------------------------------------- *)
(* Properties                                                              *)
(* ---------------------------------------------------------------------- *)
\* the step just taken was the handler of POST /process/:id for id
ProcessRequested(id) == event'.op = "process" /\ event'.id = id

\* the step just taken was the catch block of a run of document id
RunFailed(id) == event'.op = "failed" /\ event'.id = id

\* C1: at any moment at most one run of processDocumentAsync is active for a
\* document id, a run being active from the acceptance of POST /process/:id
\* until processDocumentAsync has returned (cleanup included).
C1_AtMostOneActiveRun ==
  \A id \in Jobs : Cardinality(ActiveRuns(id)) <= 1

\* C2: POST /process/:id on a job whose status is processing is answered 409,
\* starts no run, and leaves the job table and the stored records as they were.
C2_RejectsWhileProcessing ==
  [][\A id \in Jobs :
       (documentStatus[id].status = "processing" /\ ProcessRequested(id))
         => /\ event'.code = 409
            /\ UNCHANGED <<documentStatus, extractedData, runs>>]_vars

C2_Witness ==
  \E id \in Jobs :
    /\ event = Event("process", id, 409)
    /\ documentStatus[id].status = "processing"
    /\ RatLess(Num(40), documentStatus[id].progress)

\* C3: POST /process/:id on an id that /upload never returned is answered 404,
\* creates no job entry, starts no run and leaves every job unchanged.
C3_UnknownIdNotFound ==
  [][\A id \in RequestIds :
       (id \notin Jobs /\ ProcessRequested(id))
         => /\ event'.code = 404
            /\ UNCHANGED <<documentStatus, extractedData, runs>>]_vars

C3_Witness ==
  \E id \in RequestIds :
    /\ event = Event("process", id, 404)
    /\ id \notin Jobs
    /\ \E other \in Jobs : documentStatus[other].status = "processing"


\* the step just taken accepted POST /process/:id for id
ProcessAccepted(id) == ProcessRequested(id) /\ event'.code = 200

\* the latest activation of processDocumentAsync for document id
LatestRun(id) ==
  CHOOSE r \in Started :
    runs[r].doc = id /\ \A q \in Started : runs[q].doc = id => q <= r

\* C4: when rasterization, the extraction of a page or the merge raises, the
\* job goes from processing to error with the error's message and progress 0,
\* and GET /status/:id returns no merged data.
C4_FailureResetsJob ==
  [][\A id \in Jobs :
       RunFailed(id)
         => /\ documentStatus[id].status = "processing"
            /\ documentStatus'[id].status = "error"
            /\ event'.detail # NoError
            /\ documentStatus'[id].error = event'.detail
            /\ documentStatus'[id].progress = Num(0)
            /\ ~(StatusResponse(id).hasData)']_vars

\* a transport error on page 2 of 3: the job is in error with progress 0
C4_Witness ==
  \E id \in Jobs :
    /\ event = EventWith("failed", id, 0, TransportError)
    /\ runs[LatestRun(id)] = Returned(id, 3, 1)
    /\ documentStatus[id].status = "error"
    /\ documentStatus[id].progress = Num(0)
    /\ ~StatusResponse(id).hasData

\* C5: when the recovery cascade fails for a page, no default record stands
\* in for the page: no run holds, and no job stores, a page record that is
\* the default structure.
C5_NoDefaultRecordSubstituted ==
  /\ \A r \in Started :
       \A k \in 1..Len(runs[r].extractedResults) :
         ~runs[r].extractedResults[k].parseError
  /\ \A id \in DOMAIN extractedData :
       \A k \in 1..Len(extractedData[id].pages) :
         ~extractedData[id].pages[k].parseError

\* C6 as stated: the progress of a job never decreases from one state to
\* the next.
C6_ProgressNeverDecreases ==
  [][\A id \in Jobs :
       RatLeq(documentStatus[id].progress, documentStatus'[id].progress)]_vars

\* C6 as amended: the progress of a job decreases only when a run fails
\* (to 0) or when POST /process/:id is accepted for it (to 20).
C6_ProgressDropsOnlyOnFailureOrRestart ==
  [][\A id \in Jobs :
       RatLess(documentStatus'[id].progress, documentStatus[id].progress)
         => \/ /\ RunFailed(id)
               /\ documentStatus'[id].progress = Num(0)
            \/ /\ ProcessAccepted(id)
               /\ documentStatus'[id].progress = Num(20)]_vars

\* a reprocessed job that has again advanced past its first page of three
C6_Witness ==
  \E id \in Jobs :
    /\ id \in DOMAIN extractedData
    /\ documentStatus[id].status = "processing"
    /\ LatestRun(id) = 2
    /\ documentStatus[id].progress = PageProgress(1, 3)

\* C7: the progress of every job is an integer between 0 and 100.
C7_ProgressIsInteger ==
  \A id \in Jobs :
    /\ IsInteger(documentStatus[id].progress)
    /\ RatLeq(Num(0), documentStatus[id].progress)
    /\ RatLeq(documentStatus[id].progress, Num(100))

\* C8: a job has progress 100 exactly when it is completed; when it is
\* completed the merged record of its latest run is stored and returned by
\* GET /status/:id; in no other status is merged data returned.
C8_NoTornUpdate ==
  \A id \in Jobs :
    LET docInfo == documentStatus[id]
        response == StatusResponse(id)
    IN /\ (docInfo.progress = Num(100)) <=> (docInfo.status = "completed")
       /\ docInfo.status = "completed"
            => /\ id \in DOMAIN extractedData
               /\ response.hasData
               /\ response.extracted_data = extractedData[id]
               /\ extractedData[id].pageCount = runs[LatestRun(id)].n
               /\ \A k \in 1..Len(extractedData[id].pages) :
                    extractedData[id].pages[k].run = LatestRun(id)
       /\ docInfo.status # "completed" => ~response.hasData

\* a job completed for the second time, with the record of the second run
C8_Witness ==
  \E id \in Jobs :
    /\ documentStatus[id].status = "completed"
    /\ LatestRun(id) = 2
    /\ extractedData[id].pageCount >= 2
    /\ StatusResponse(id).extracted_data.pages[1].run = 2

C10_StatusTransitions ==
  [][\A id \in Jobs :
       LET before == documentStatus[id]
           after == documentStatus'[id]
       IN /\ after.status # before.status
               => \/ /\ ProcessAccepted(id)
                     /\ before.status \in {"pending", "completed", "error"}
                     /\ after.status = "processing"
                  \/ /\ before.status = "processing"
                     /\ after.status \in {"completed", "error"}
          /\ (before.status \in {"completed", "error"} /\ ~ProcessAccepted(id))
               => after = before
          /\ before.status # "pending" => after.status # "pending"]_vars

\* the cleanup of an earlier run ends after a later run of the job failed
C10_Witness ==
  \E id \in Jobs :
    /\ event = Event("cleaned", id, 0)
    /\ documentStatus[id].status = "error"
    /\ documentStatus[id].error = TransportError


(* ====================================================================== *)
(* Structured-text recovery: OllamaService.parseJsonFromResponse           *)
(* ====================================================================== *)
\* Bounds: the length of the free texts and the nesting of the objects tried
MaxTextLen == 3
MaxDepth == 4

\* A response text is a sequence of lexemes:
\*   "{" "}" ","   the JSON punctuation
\*   "K"           a quoted key with its colon,   "k":
\*   "B"           a bare key with its colon,     k:
\*   "1"           a number
\*   "w"           a word of prose
\*   "n"           a newline (the only white space that is kept)
\*   "F" "J"       the code fences ``` and ```json
\*   "P" "E"       a boilerplate prefix (Result:) and suffix (End of response.)
Tokens == {"{", "}", ",", "K", "B", "1", "w", "n", "F", "J", "P", "E"}

\* the number of characters of a lexeme
CharLen(t) ==
  CASE t \in {"{", "}", ",", "1", "n"} -> 1
    [] t = "B" -> 2
    [] t = "F" -> 3
    [] t \in {"K", "w"} -> 4
    [] t \in {"J", "P"} -> 7
    [] OTHER -> 16

RECURSIVE Chars(_)
Chars(s) == IF s = <<>> THEN 0 ELSE CharLen(Head(s)) + Chars(Tail(s))

\* String.prototype.trim
RECURSIVE TrimLeft(_)
TrimLeft(s) == IF s # <<>> /\ Head(s) = "n" THEN TrimLeft(Tail(s)) ELSE s

RECURSIVE TrimRight(_)
TrimRight(s) ==
  IF s # <<>> /\ s[Len(s)] = "n" THEN TrimRight(SubSeq(s, 1, Len(s) - 1)) ELSE s

Trim(s) == TrimRight(TrimLeft(s))

\* cleanedText: one known prefix and one known suffix are removed
Clean(responseText) ==
  LET t0 == Trim(responseText)
      t1 == IF t0 # <<>> /\ Head(t0) = "P" THEN Trim(Tail(t0)) ELSE t0
  IN IF t1 # <<>> /\ t1[Len(t1)] = "E"
     THEN Trim(SubSeq(t1, 1, Len(t1) - 1))
     ELSE t1

\* the first index from i on that holds no white space (Len(s) + 1 if none)
RECURSIVE SkipWs(_, _)
SkipWs(s, i) == IF i <= Len(s) /\ s[i] = "n" THEN SkipWs(s, i + 1) ELSE i

\* JSON.parse.  A value is kept as its canonical text; all keys of the
\* alphabet are the key k, so of several members the last one wins.
ParseFailure == [ok |-> FALSE, next |-> 0, value |-> <<>>]

RECURSIVE ParseValue(_, _), ParseMembers(_, _)
ParseValue(s, i) ==
  LET j == SkipWs(s, i)
  IN IF j > Len(s) THEN ParseFailure
     ELSE IF s[j] = "1" THEN [ok |-> TRUE, next |-> j + 1, value |-> <<"1">>]
     ELSE IF s[j] = "{"
     THEN LET k == SkipWs(s, j + 1)
          IN IF k <= Len(s) /\ s[k] = "}"
             THEN [ok |-> TRUE, next |-> k + 1, value |-> <<"{", "}">>]
             ELSE ParseMembers(s, k)
     ELSE ParseFailure

ParseMembers(s, i) ==
  LET j == SkipWs(s, i)
  IN IF j > Len(s) \/ s[j] # "K" THEN ParseFailure
     ELSE LET v == ParseValue(s, j + 1)
          IN IF ~v.ok THEN ParseFailure
             ELSE LET k == SkipWs(s, v.next)
                  IN IF k > Len(s) THEN ParseFailure
                     ELSE IF s[k] = "}"
                     THEN [ok |-> TRUE, next |-> k + 1,
                           value |-> <<"{", "K">> \o v.value \o <<"}">>]
                     ELSE IF s[k] = "," THEN ParseMembers(s, k + 1)
                     ELSE ParseFailure

\* what a strategy yields: a value, or nothing
Nothing == [ok |-> FALSE, value |-> <<>>]
Found(value) == [ok |-> TRUE, value |-> value]

JsonParse(s) ==
  LET v == ParseValue(s, 1)
  IN IF v.ok /\ SkipWs(s, v.next) > Len(s) THEN Found(v.value) ELSE Nothing

\* indexOf / lastIndexOf, counted from 1, 0 when absent
IndexOf(s, t) ==
  IF \E i \in 1..Len(s) : s[i] = t
  THEN CHOOSE i \in 1..Len(s) : s[i] = t /\ \A j \in 1..(i - 1) : s[j] # t
  ELSE 0

LastIndexOf(s, t) ==
  IF \E i \in 1..Len(s) : s[i] = t
  THEN CHOOSE i \in 1..Len(s) : s[i] = t /\ \A j \in (i + 1)..Len(s) : s[j] # t
  ELSE 0

\* Method 1: JSON.parse(cleanedText)
Method1(s) == JsonParse(s)

\* Method 2: the fenced block.  A pattern matches at the leftmost opener
\* that is followed by "{", up to the first "}" that is followed by ```.
IsFence(t) == t \in {"F", "J"}

FenceMatches(s, opener) ==
  {m \in (1..Len(s)) \X (1..Len(s)) :
     /\ s[m[1]] = opener
     /\ SkipWs(s, m[1] + 1) <= Len(s)
     /\ s[SkipWs(s, m[1] + 1)] = "{"
     /\ m[2] > SkipWs(s, m[1] + 1)
     /\ s[m[2]] = "}"
     /\ SkipWs(s, m[2] + 1) <= Len(s)
     /\ IsFence(s[SkipWs(s, m[2] + 1)])}

FenceCapture(s, opener) ==
  LET all == FenceMatches(s, opener)
      m == CHOOSE x \in all :
             \A y \in all : x[1] < y[1] \/ (x[1] = y[1] /\ x[2] <= y[2])
  IN SubSeq(s, SkipWs(s, m[1] + 1), m[2])

\* the patterns in the order tried; a candidate that does not parse throws
\* out of the loop (the single-backtick pattern matches nothing that the
\* ``` pattern does not match on this alphabet)
Method2(s) ==
  IF FenceMatches(s, "J") # {} THEN JsonParse(FenceCapture(s, "J"))
  ELSE IF FenceMatches(s, "F") # {} THEN JsonParse(FenceCapture(s, "F"))
  ELSE Nothing

\* Method 3: /\{(?:[^{}]|{(?:[^{}]|{[^{}]*})*})*\}/g
\* the pattern nests three levels of braces
RegexDepth == 3
\* Math.min(3, sortedMatches.length)
MaxCandidates == 3

\* the index of the "}" that closes the group with `open` braces open at j
RECURSIVE MatchEnd(_, _, _)
MatchEnd(s, j, open) ==
  IF j > Len(s) THEN 0
  ELSE IF s[j] = "{" THEN MatchEnd(s, j + 1, open + 1)
  ELSE IF s[j] = "}"
  THEN IF open = 1 THEN j ELSE MatchEnd(s, j + 1, open - 1)
  ELSE MatchEnd(s, j + 1, open)

\* the deepest nesting of braces in s
RECURSIVE Nesting(_, _, _)
Nesting(s, open, deepest) ==
  IF s = <<>> THEN deepest
  ELSE IF Head(s) = "{"
  THEN Nesting(Tail(s), open + 1, IF open + 1 > deepest THEN open + 1 ELSE deepest)
  ELSE IF Head(s) = "}" THEN Nesting(Tail(s), open - 1, deepest)
  ELSE Nesting(Tail(s), open, deepest)

\* the end of the pattern's match that starts at i, 0 if it does not match
BraceMatchAt(s, i) ==
  IF s[i] # "{" THEN 0
  ELSE LET e == MatchEnd(s, i + 1, 1)
       IN IF e > 0 /\ Nesting(SubSeq(s, i, e), 0, 0) <= RegexDepth THEN e ELSE 0

\* String.prototype.match with the g flag: the matches from left to right
RECURSIVE BraceMatches(_, _)
BraceMatches(s, i) ==
  IF i > Len(s) THEN <<>>
  ELSE IF BraceMatchAt(s, i) > 0
  THEN <<SubSeq(s, i, BraceMatchAt(s, i))>> \o BraceMatches(s, BraceMatchAt(s, i) + 1)
  ELSE BraceMatches(s, i + 1)

\* matches.sort((a, b) => b.length - a.length): longest first, stable
RECURSIVE InsertByLength(_, _)
InsertByLength(sorted, x) ==
  IF sorted = <<>> THEN <<x>>
  ELSE IF Chars(Head(sorted)) >= Chars(x)
  THEN <<Head(sorted)>> \o InsertByLength(Tail(sorted), x)
  ELSE <<x>> \o sorted

RECURSIVE SortByLength(_)
SortByLength(matches) ==
  IF matches = <<>> THEN <<>>
  ELSE InsertByLength(SortByLength(SubSeq(matches, 1, Len(matches) - 1)),
                      matches[Len(matches)])

\* the first of the candidates i, i+1, ... below the limit that parses
RECURSIVE FirstParsing(_, _, _)
FirstParsing(candidates, i, limit) ==
  IF i > limit \/ i > Len(candidates) THEN Nothing
  ELSE IF JsonParse(Trim(candidates[i])).ok THEN JsonParse(Trim(candidates[i]))
  ELSE FirstParsing(candidates, i + 1, limit)

Method3(s) == FirstParsing(SortByLength(BraceMatches(s, 1)), 1, MaxCandidates)

\* Method 4: from the first "{" to the last "}"
Method4(s) ==
  LET firstBrace == IndexOf(s, "{")
      lastBrace == LastIndexOf(s, "}")
  IN IF firstBrace # 0 /\ lastBrace # 0 /\ lastBrace > firstBrace
     THEN JsonParse(SubSeq(s, firstBrace, lastBrace))
     ELSE Nothing

\* Method 5: repair of common faults, then JSON.parse
\* replace(/,\s*}/g, '}'): a comma whose next lexeme is "}" is dropped
RECURSIVE DropTrailingCommas(_, _)
DropTrailingCommas(s, i) ==
  IF i > Len(s) THEN <<>>
  ELSE IF s[i] = "," /\ SkipWs(s, i + 1) <= Len(s) /\ s[SkipWs(s, i + 1)] = "}"
  THEN DropTrailingCommas(s, i + 1)
  ELSE <<s[i]>> \o DropTrailingCommas(s, i + 1)

\* replace(/\n/g, ' ') ... replace(/\s+/g, ' '): white space carries nothing
RECURSIVE DropNewlines(_)
DropNewlines(s) ==
  IF s = <<>> THEN <<>>
  ELSE IF Head(s) = "n" THEN DropNewlines(Tail(s))
  ELSE <<Head(s)>> \o DropNewlines(Tail(s))

\* replace(/([{,]\s*)(\w+):/g, '$1"$2":'): a bare key after "{" or ","
IsBareKey(t) == t \in {"B", "P"}

QuoteKeys(s) ==
  [i \in 1..Len(s) |->
     IF i > 1 /\ IsBareKey(s[i]) /\ s[i - 1] \in {"{", ","} THEN "K" ELSE s[i]]

Method5(s) ==
  LET firstBrace == IndexOf(s, "{")
      f1 == IF firstBrace > 1 THEN SubSeq(s, firstBrace, Len(s)) ELSE s
      lastBrace == LastIndexOf(f1, "}")
      f2 == IF lastBrace # 0 /\ lastBrace < Len(f1)
            THEN SubSeq(f1, 1, lastBrace) ELSE f1
  IN JsonParse(Trim(QuoteKeys(DropNewlines(DropTrailingCommas(f2, 1)))))

\* Method 6: the lines from the first that holds "{" to the one that
\* closes the braces
RECURSIVE Lines(_)
Lines(s) ==
  LET nl == IndexOf(s, "n")
  IN IF nl = 0 THEN <<s>>
     ELSE <<SubSeq(s, 1, nl - 1)>> \o Lines(SubSeq(s, nl + 1, Len(s)))

RECURSIVE Count(_, _)
Count(s, t) ==
  IF s = <<>> THEN 0
  ELSE (IF Head(s) = t THEN 1 ELSE 0) + Count(Tail(s), t)

RECURSIVE JsonLines(_, _, _, _, _)
JsonLines(lines, idx, inJson, braceCount, jsonLines) ==
  IF idx > Len(lines) THEN jsonLines
  ELSE LET line == lines[idx]
           opens == IndexOf(line, "{") # 0
           inJson2 == inJson \/ opens
           count2 == IF opens THEN braceCount + Count(line, "{") ELSE braceCount
           pushed == IF inJson2 THEN Append(jsonLines, line) ELSE jsonLines
           count3 == count2 - Count(line, "}")
       IN IF IndexOf(line, "}") # 0
          THEN IF count3 <= 0 THEN pushed
               ELSE JsonLines(lines, idx + 1, inJson2, count3, pushed)
          ELSE JsonLines(lines, idx + 1, inJson2, count2, pushed)

RECURSIVE Join(_)
Join(lines) == IF lines = <<>> THEN <<>> ELSE Head(lines) \o Join(Tail(lines))

Method6(s) ==
  LET jsonLines == JsonLines(Lines(s), 1, FALSE, 0, <<>>)
  IN IF Len(jsonLines) > 0 THEN JsonParse(Join(jsonLines)) ELSE Nothing

\* Method 7: key-value pairs picked by pattern; the result is returned
\* only if it has a key
HasKeyValue(s) ==
  \E i \in 1..Len(s) :
    /\ s[i] = "K" \/ IsBareKey(s[i])
    /\ SkipWs(s, i + 1) <= Len(s)
    /\ s[SkipWs(s, i + 1)] = "1"

Method7(s) == IF HasKeyValue(s) THEN Found(<<"{", "K", "1", "}">>) ELSE Nothing

\* the strategies in the order tried
Methods == 7

Method(k, s) ==
  CASE k = 1 -> Method1(s)
    [] k = 2 -> Method2(s)
    [] k = 3 -> Method3(s)
    [] k = 4 -> Method4(s)
    [] k = 5 -> Method5(s)
    [] k = 6 -> Method6(s)
    [] OTHER -> Method7(s)

\* the texts tried: every short text, and objects of every depth in prose
RECURSIVE Texts(_)
Texts(n) ==
  IF n = 0 THEN {<<>>}
  ELSE Texts(n - 1) \cup
       {Append(s, t) : s \in {x \in Texts(n - 1) : Len(x) = n - 1}, t \in Tokens}

RECURSIVE NestedObject(_)
NestedObject(d) ==
  IF d <= 1 THEN <<"{", "K", "1", "}">>
  ELSE <<"{", "K">> \o NestedObject(d - 1) \o <<"}">>

Leads == {<<>>, <<"w">>, <<"P">>, <<"w", "n">>, <<"P", "w", "n">>}
Trails == {<<>>, <<"w">>, <<"E">>, <<"n", "w">>, <<"n", "w", "E">>}

Objects ==
  {NestedObject(d) : d \in 1..MaxDepth} \cup
  {<<"{", "K", "1", ",", "K">> \o NestedObject(d) \o <<"}">> : d \in 1..(MaxDepth - 1)} \cup
  {<<"{", "n", "K">> \o NestedObject(d) \o <<"n", "}">> : d \in 1..(MaxDepth - 1)}

\* fenced blocks: one block, or a block followed by a second candidate
Fenced ==
  {<<open>> \o body \o <<"F">> \o rest :
     open \in {"J", "F"},
     body \in {<<"{", "w", "}">>, <<"{", "K", "1", "}">>},
     rest \in {<<>>, <<"{", "K", "1", "}", "F">>,
               <<"n", "{", "K", "{", "K", "1", "}", "}", "n", "F">>}}

ParseInputs ==
  Texts(MaxTextLen) \cup
  {lead \o object \o trail : lead \in Leads, object \in Objects, trail \in Trails}
  \cup {lead \o fenced : lead \in Leads, fenced \in Fenced}

\* one call of parseJsonFromResponse: `method` is the strategy tried next
ParseCall(text) ==
  [fn |-> "parse", text |-> text, cleaned |-> <<>>, method |-> 0,
   status |-> "running", value |-> <<>>]

\* the server of a service under unit test: started, nothing uploaded
ServerIdle ==
  /\ documentStatus = <<>>
  /\ extractedData = <<>>
  /\ runs = <<>>
  /\ event = Event("listen", 0, 0)

ParseInit ==
  /\ ServerIdle
  /\ \E text \in ParseInputs : call = ParseCall(text)

ParseClean ==
  /\ call.fn = "parse" /\ call.status = "running" /\ call.method = 0
  /\ call' = [call EXCEPT !.cleaned = Clean(call.text), !.method = 1]
  /\ UNCHANGED server

ParseTry ==
  /\ call.fn = "parse" /\ call.status = "running" /\ call.method \in 1..Methods
  /\ LET r == Method(call.method, call.cleaned)
     IN call' = IF r.ok
                THEN [call EXCEPT !.status = "returned", !.value = r.value]
                ELSE [call EXCEPT !.method = call.method + 1]
  /\ UNCHANGED server

ParseThrow ==
  /\ call.fn = "parse" /\ call.status = "running" /\ call.method > Methods
  /\ call' = [call EXCEPT !.status = "threw"]
  /\ UNCHANGED server

ParseNext == ParseClean \/ ParseTry \/ ParseThrow

ParseSpec == ParseInit /\ [][ParseNext]_vars

(* ---------------------------------------------------------------------- *)
(* Properties of the structured-text recovery                              *)
(* ---------------------------------------------------------------------- *)
Finished == call.fn = "parse" /\ call.status # "running"

IsProse(s) == \A i \in 1..Len(s) : s[i] \in {"w", "n", "P", "E"}

\* the text is prose, the object text[a..b], prose
WrapsObject(text, a, b) ==
  /\ a <= b
  /\ text[a] = "{"
  /\ JsonParse(SubSeq(text, a, b)).ok
  /\ IsProse(SubSeq(text, 1, a - 1))
  /\ IsProse(SubSeq(text, b + 1, Len(text)))

\* C11: for every text that is prose around exactly one well-formed JSON
\* object of any nesting depth, without a code fence, the call returns the
\* parsed equivalent of that whole object, not a sub-object or a partial
\* key/value mapping.
C11_WholeObjectRecovered ==
  Finished =>
    \A a, b \in 1..Len(call.text) :
      WrapsObject(call.text, a, b) =>
        /\ call.status = "returned"
        /\ call.value = JsonParse(SubSeq(call.text, a, b)).value

\* a text without any key, quoted or bare
NoKeys(text) == \A i \in 1..Len(text) : text[i] # "K" /\ ~IsBareKey(text[i])

\* C12: for every text with no extractable key/value structure the call
\* throws; the last-resort key/value strategy returns a result only when
\* all earlier strategies failed and it extracted at least one field.
C12_NoStructureThrows ==
  Finished =>
    /\ NoKeys(call.text) => call.status = "threw"
    /\ (call.status = "returned" /\ call.method = Methods) =>
         /\ \A k \in 1..(Methods - 1) : ~Method(k, call.cleaned).ok
         /\ HasKeyValue(call.cleaned)

(* ====================================================================== *)
(* Merge of page records: DocumentProcessor.combineExtractedData           *)
(* ====================================================================== *)
\* Bound: the number of page records merged
MaxMergeRecords == 2

\* A scalar is written as its JavaScript literal.
Numbers == {"null", "0", "5", "7"}
Strings == {"null", "''", "'a'", "'b'"}
Undefined == "undefined"

\* ToBoolean
Truthy(v) == v \notin {"undefined", "null", "0", "''"}

\* the scalar fields followed, one of each section merged by key
ScalarFields == {"name", "revenue", "totalAssets", "period"}

\* Account numbers and periods are texts with their hyphens
StatementPairs ==
  {[accountNumber |-> <<"12">>, period |-> <<"2023">>],
   [accountNumber |-> <<"12">>, period |-> <<"34", "-", "2023">>],
   [accountNumber |-> <<"12", "-", "34">>, period |-> <<"2023">>]}

\* what one page can hold: a name, a number, at most one bank statement
PageShapes ==
  [strings : Strings, numbers : Numbers,
   statements : {<<>>} \cup {<<pair>> : pair \in StatementPairs}]

\* the record extracted from page k; the balance tells the statements apart
ExtractedResult(shape, k) ==
  [name |-> shape.strings, period |-> shape.strings,
   revenue |-> shape.numbers, totalAssets |-> shape.numbers,
   bankStatements |->
     [i \in 1..Len(shape.statements) |->
        [accountNumber |-> shape.statements[i].accountNumber,
         period |-> shape.statements[i].period,
         balance |-> k]]]

MergeInputs ==
  {[k \in 1..Len(shapes) |-> ExtractedResult(shapes[k], k)] :
     shapes \in UNION {[1..n -> PageShapes] : n \in 1..MaxMergeRecords}}

\* if (!combined.x[key] && result.x[key]) combined.x[key] = result.x[key]
RECURSIVE MergeField(_, _, _)
MergeField(extractedResults, key, combined) ==
  IF extractedResults = <<>> THEN combined
  ELSE MergeField(Tail(extractedResults), key,
                  IF ~Truthy(combined) /\ Truthy(Head(extractedResults)[key])
                  THEN Head(extractedResults)[key]
                  ELSE combined)

\* combined.financialInfo.bankStatements.push(...result...bankStatements)
RECURSIVE AllStatements(_)
AllStatements(extractedResults) ==
  IF extractedResults = <<>> THEN <<>>
  ELSE Head(extractedResults).bankStatements \o AllStatements(Tail(extractedResults))

\* `${statement.accountNumber}-${statement.period}`
StatementKey(statement) == statement.accountNumber \o <<"-">> \o statement.period

\* removeDuplicateStatements: filter with the Set of keys seen
RECURSIVE FilterSeen(_, _)
FilterSeen(statements, seen) ==
  IF statements = <<>> THEN <<>>
  ELSE IF StatementKey(Head(statements)) \in seen
  THEN FilterSeen(Tail(statements), seen)
  ELSE <<Head(statements)>> \o
       FilterSeen(Tail(statements), seen \cup {StatementKey(Head(statements))})

RemoveDuplicateStatements(statements) == FilterSeen(statements, {})

\* the merged record, as far as the scalar fields and the bank statements go
CombineFields(extractedResults) ==
  [name |-> MergeField(extractedResults, "name", Undefined),
   revenue |-> MergeField(extractedResults, "revenue", Undefined),
   totalAssets |-> MergeField(extractedResults, "totalAssets", Undefined),
   period |-> MergeField(extractedResults, "period", Undefined),
   bankStatements |-> RemoveDuplicateStatements(AllStatements(extractedResults)),
   pageCount |-> Len(extractedResults)]

MergeInit ==
  /\ ServerIdle
  /\ \E extractedResults \in MergeInputs :
       call = [fn |-> "combine", extractedResults |-> extractedResults,
               status |-> "running", combined |-> <<>>]

MergeReturns ==
  /\ call.fn = "combine" /\ call.status = "running"
  /\ call' = [call EXCEPT !.status = "returned",
                          !.combined = CombineFields(call.extractedResults)]
  /\ UNCHANGED server

MergeNext == MergeReturns

MergeSpec == MergeInit /\ [][MergeNext]_vars

(* ---------------------------------------------------------------------- *)
(* Properties of the merge                                                 *)
(* ---------------------------------------------------------------------- *)
Merged == call.fn = "combine" /\ call.status = "returned"

\* the value of the first record whose value for the key is not null
FirstNonNull(extractedResults, key) ==
  IF \E k \in 1..Len(extractedResults) : extractedResults[k][key] # "null"
  THEN extractedResults[CHOOSE k \in 1..Len(extractedResults) :
         /\ extractedResults[k][key] # "null"
         /\ \A j \in 1..(k - 1) : extractedResults[j][key] = "null"][key]
  ELSE Undefined

\* C13: for every scalar optional field of company info, profit/loss,
\* balance sheet and cash flow, the merged value is the value of the first
\* record in input order whose value is non-null, numeric 0 and the empty
\* string included; a later record's value never replaces it.
C13_FirstNonNullWins ==
  Merged =>
    \A key \in ScalarFields :
      call.combined[key] = FirstNonNull(call.extractedResults, key)

\* the positions of the merged statements that carry the pair of statement s
WithPairOf(statements, s) ==
  {i \in 1..Len(statements) :
     /\ statements[i].accountNumber = s.accountNumber
     /\ statements[i].period = s.period}

\* C14: after the merge no two bank statements share an (account number,
\* period) pair: the input statements with an identical pair yield exactly
\* one bank statement for that pair, the first occurrence in input order.
C14_OneStatementPerPair ==
  Merged =>
    LET input == AllStatements(call.extractedResults)
        output == call.combined.bankStatements
    IN \A i \in 1..Len(input) :
         /\ Cardinality(WithPairOf(output, input[i])) = 1
         /\ \A o \in WithPairOf(output, input[i]) :
              \A j \in WithPairOf(input, input[i]) :
                input[j].balance >= output[o].balance

(* ====================================================================== *)
(* Grouping: DocumentProcessor.groupFinancialDocuments                     *)
(* ====================================================================== *)
\* Bound: the number of documents grouped
MaxGroupDocs == 3

\* documentType values, as JavaScript literals: strings in several cases,
\* a missing one
DocumentTypes ==
  {"'INCOME STATEMENT'", "'Balance Sheet'", "'bank statements'",
   "'Credit Report'", "'Statement of Cash Flows'", "'Invoice'", "undefined"}

IsString(v) == v # Undefined

\* String.prototype.toLowerCase
ToLowerCaseKeepingCase(t) == t
ToLowerCase(t) ==
  CASE t = "'INCOME STATEMENT'" -> "'income statement'"
    [] t = "'Balance Sheet'" -> "'balance sheet'"
    [] t = "'Credit Report'" -> "'credit report'"
    [] t = "'Statement of Cash Flows'" -> "'statement of cash flows'"
    [] t = "'Invoice'" -> "'invoice'"
    [] OTHER -> t

\* the case labels of the switch
Synonyms ==
  [profitLossStatements |->
     {"'profit and loss statement'", "'profit & loss'", "'income statement'",
      "'p&l statement'"},
   balanceSheets |-> {"'balance sheet'", "'statement of financial position'"},
   bankStatements |-> {"'bank statement'", "'bank statements'"},
   creditReports |->
     {"'credit history report'", "'credit report'", "'credit history'"},
   cashFlowStatements |->
     {"'cash flow statement'", "'statement of cash flows'"}]

TypedCollections == DOMAIN Synonyms
SortedCollections == {"profitLossStatements", "balanceSheets", "cashFlowStatements"}

\* the collection the switch selects for the value switched on
Collection(switched) ==
  IF \E c \in TypedCollections : switched \in Synonyms[c]
  THEN CHOOSE c \in TypedCollections : switched \in Synonyms[c]
  ELSE "otherDocuments"

\* A period is a text of words; <<>> is the absent or empty period.
Periods == {<<>>, <<"Q4", "2020">>, <<"Q1", "2021">>, <<"Q2">>}
UnknownPeriod == <<"Unknown Period">>

\* the words by collation order
WordRank(w) ==
  CASE w = "2020" -> 1
    [] w = "2021" -> 2
    [] w = "2022" -> 3
    [] w = "2023" -> 4
    [] w = "December" -> 5
    [] w = "Q1" -> 6
    [] w = "Q2" -> 7
    [] w = "Q4" -> 8
    [] OTHER -> 9

\* parseInt of a word that matches 20\d{2}, 0 for any other word
YearOf(w) ==
  CASE w = "2020" -> 2020
    [] w = "2021" -> 2021
    [] w = "2022" -> 2022
    [] w = "2023" -> 2023
    [] OTHER -> 0

\* extractYear: the first 20xx word of the period, 0 (null) if none
RECURSIVE ExtractYear(_)
ExtractYear(period) ==
  IF period = <<>> THEN 0
  ELSE IF YearOf(Head(period)) # 0 THEN YearOf(Head(period))
  ELSE ExtractYear(Tail(period))

\* String.prototype.localeCompare
RECURSIVE LocaleCompare(_, _)
LocaleCompare(a, b) ==
  IF a = <<>> /\ b = <<>> THEN 0
  ELSE IF a = <<>> THEN -1
  ELSE IF b = <<>> THEN 1
  ELSE IF WordRank(Head(a)) < WordRank(Head(b)) THEN -1
  ELSE IF WordRank(Head(a)) > WordRank(Head(b)) THEN 1
  ELSE LocaleCompare(Tail(a), Tail(b))

ComparePeriods(periodA, periodB) ==
  IF periodA = <<>> \/ periodB = <<>> THEN 0
  ELSE IF ExtractYear(periodA) # 0 /\ ExtractYear(periodB) # 0
  THEN ExtractYear(periodA) - ExtractYear(periodB)
  ELSE LocaleCompare(periodA, periodB)

\* value || 0
OrZero(value) == IF value = <<>> THEN 0 ELSE value[1]

\* the documents: a type and, unless the financial sub-records are missing,
\* the period and the amount that its sub-records carry (every period for
\* two of the types whose collections are sorted, one period for the
\* others); sourceFile is the position
DocShapes ==
  {shape \in [documentType : DocumentTypes,
              financialInfo : {<<>>} \cup {<<[period |-> p, amount |-> <<100>>]>> :
                                             p \in Periods}] :
     \/ shape.documentType \in {"'INCOME STATEMENT'", "'Balance Sheet'"}
     \/ shape.financialInfo = <<>>
     \/ shape.financialInfo[1].period = <<"Q2">>}

GroupInputs ==
  {[k \in 1..Len(shapes) |->
      [documentType |-> shapes[k].documentType,
       financialInfo |-> shapes[k].financialInfo,
       sourceFile |-> k]] :
     shapes \in UNION {[1..n -> DocShapes] : n \in 1..MaxGroupDocs}}

\* addProfitLossData, addBalanceSheetData, addBankStatementData,
\* addCreditReportData, addCashFlowData: the entries a document adds to its
\* collection (none if its sub-record is missing)
Entries(data) ==
  IF data.financialInfo = <<>> THEN <<>>
  ELSE <<[period |-> IF data.financialInfo[1].period = <<>>
                     THEN UnknownPeriod
                     ELSE data.financialInfo[1].period,
          revenue |-> <<OrZero(data.financialInfo[1].amount)>>,
          netIncome |-> <<OrZero(data.financialInfo[1].amount)>>,
          totalAssets |-> <<OrZero(data.financialInfo[1].amount)>>,
          balance |-> <<OrZero(data.financialInfo[1].amount)>>,
          sourceFile |-> data.sourceFile]>>

\* groupedData.otherDocuments.push({documentType, sourceFile, ..., data})
OtherEntry(data) ==
  [documentType |-> data.documentType, sourceFile |-> data.sourceFile,
   data |-> data]

\* the collection c after the loop over the documents
RECURSIVE Collect(_, _)
Collect(allExtractedData, c) ==
  IF allExtractedData = <<>> THEN <<>>
  ELSE LET data == Head(allExtractedData)
       IN (IF Collection(ToLowerCase(data.documentType)) # c THEN <<>>
           ELSE IF c = "otherDocuments" THEN <<OtherEntry(data)>>
           ELSE Entries(data))
          \o Collect(Tail(allExtractedData), c)

\* Array.prototype.sort((a, b) => this.comparePeriods(a.period, b.period)):
\* a stable sort when the comparator is consistent on the entries; with an
\* inconsistent comparator the order is implementation-defined
Consistent(entries) ==
  \A i, j, k \in 1..Len(entries) :
    (/\ ComparePeriods(entries[i].period, entries[j].period) <= 0
     /\ ComparePeriods(entries[j].period, entries[k].period) <= 0)
    => ComparePeriods(entries[i].period, entries[k].period) <= 0

RECURSIVE InsertByPeriod(_, _)
InsertByPeriod(sorted, x) ==
  IF sorted = <<>> THEN <<x>>
  ELSE IF ComparePeriods(Head(sorted).period, x.period) <= 0
  THEN <<Head(sorted)>> \o InsertByPeriod(Tail(sorted), x)
  ELSE <<x>> \o sorted

RECURSIVE StableSort(_)
StableSort(entries) ==
  IF entries = <<>> THEN <<>>
  ELSE InsertByPeriod(StableSort(SubSeq(entries, 1, Len(entries) - 1)),
                      entries[Len(entries)])

KeepOrder(entries) == {entries}

Sorts(entries) ==
  IF Consistent(entries) THEN {StableSort(entries)}
  ELSE {[i \in 1..Len(entries) |-> entries[p[i]]] :
          p \in Permutations(1..Len(entries))}

\* data.documentType.toLowerCase() on a value that is not a string
GroupTypeError == "TypeError: data.documentType.toLowerCase is not a function"

\* the values groupFinancialDocuments can return
GroupResults(allExtractedData) ==
  [profitLossStatements : Sorts(Collect(allExtractedData, "profitLossStatements")),
   balanceSheets : Sorts(Collect(allExtractedData, "balanceSheets")),
   cashFlowStatements : Sorts(Collect(allExtractedData, "cashFlowStatements")),
   bankStatements : {Collect(allExtractedData, "bankStatements")},
   creditReports : {Collect(allExtractedData, "creditReports")},
   otherDocuments : {Collect(allExtractedData, "otherDocuments")},
   totalDocuments : {Len(allExtractedData)}]

GroupInit ==
  /\ ServerIdle
  /\ \E allExtractedData \in GroupInputs :
       call = [fn |-> "group", allExtractedData |-> allExtractedData,
               status |-> "running", groupedData |-> <<>>, message |-> NoError]

GroupThrows ==
  /\ call.fn = "group" /\ call.status = "running"
  /\ \E k \in 1..Len(call.allExtractedData) :
       ~IsString(call.allExtractedData[k].documentType)
  /\ call' = [call EXCEPT !.status = "threw", !.message = GroupTypeError]
  /\ UNCHANGED server

GroupReturns ==
  /\ call.fn = "group" /\ call.status = "running"
  /\ \A k \in 1..Len(call.allExtractedData) :
       IsString(call.allExtractedData[k].documentType)
  /\ \E groupedData \in GroupResults(call.allExtractedData) :
       call' = [call EXCEPT !.status = "returned", !.groupedData = groupedData]
  /\ UNCHANGED server

GroupNext == GroupThrows \/ GroupReturns

GroupSpec == GroupInit /\ [][GroupNext]_vars

(* ---------------------------------------------------------------------- *)
(* Properties of the grouping                                              *)
(* ---------------------------------------------------------------------- *)
Grouped == call.fn = "group" /\ call.status = "returned"

\* C15: group never raises, for any sequence of documents, including
\* documents whose documentType is missing or not a string and documents
\* whose financial sub-records are missing.
C15_GroupNeverRaises == call.fn = "group" => call.status # "threw"

\* the positions of the entries of collection c that stem from document k
From(c, k) ==
  {i \in 1..Len(call.groupedData[c]) : call.groupedData[c][i].sourceFile = k}

\* the spellings that differ in the case of their letters only
CaseVariants ==
  {{"'INCOME STATEMENT'", "'income statement'"},
   {"'Balance Sheet'", "'balance sheet'"},
   {"'Credit Report'", "'credit report'"},
   {"'Statement of Cash Flows'", "'statement of cash flows'"},
   {"'Invoice'", "'invoice'"}}

EqualIgnoringCase(a, b) == a = b \/ \E v \in CaseVariants : a \in v /\ b \in v

\* the type matches a synonym of collection c, compared without case
Matches(documentType, c) ==
  \E synonym \in Synonyms[c] : EqualIgnoringCase(documentType, synonym)

\* C16: each document is classified by comparing its documentType without
\* regard to case with the synonym table: a document whose type matches a
\* synonym is routed to that synonym's typed collection only, and a document
\* whose type matches no synonym appears exactly once in otherDocuments,
\* with the full original record, and in no typed collection.
C16_ClassifiedBySynonym ==
  Grouped =>
    \A k \in 1..Len(call.allExtractedData) :
      LET data == call.allExtractedData[k]
      IN /\ \A c \in TypedCollections :
              Matches(data.documentType, c) =>
                /\ (data.financialInfo # <<>>) <=> (From(c, k) # {})
                /\ \A other \in (TypedCollections \cup {"otherDocuments"}) \ {c} :
                     From(other, k) = {}
         /\ (\A c \in TypedCollections : ~Matches(data.documentType, c)) =>
              /\ Cardinality(From("otherDocuments", k)) = 1
              /\ \A i \in From("otherDocuments", k) :
                   call.groupedData.otherDocuments[i].data = data
              /\ \A c \in TypedCollections : From(c, k) = {}

\* a document in capitals routed to its typed collection next to an
\* unmatched one kept in otherDocuments
C16_Witness ==
  /\ Grouped
  /\ \E k, u \in 1..Len(call.allExtractedData) :
       /\ call.allExtractedData[k].documentType = "'INCOME STATEMENT'"
       /\ From("profitLossStatements", k) # {}
       /\ call.allExtractedData[u].documentType = "'Invoice'"
       /\ From("otherDocuments", u) # {}

\* C17: the profit-loss, balance-sheet and cash-flow collections are sorted
\* ascending by period: for entries at positions i < j, the period
\* comparison does not rank entry i's period after entry j's, for periods
\* with or without a 20xx year; the bank-statement and credit-report
\* collections keep insertion order.
C17_SortedByPeriod ==
  Grouped =>
    /\ \A c \in SortedCollections :
         \A i, j \in 1..Len(call.groupedData[c]) :
           i < j => ComparePeriods(call.groupedData[c][i].period,
                                   call.groupedData[c][j].period) <= 0
    /\ \A c \in {"bankStatements", "creditReports"} :
         \A i, j \in 1..Len(call.groupedData[c]) :
           i < j => call.groupedData[c][i].sourceFile
                      < call.groupedData[c][j].sourceFile

(* ====================================================================== *)
(* Trend analysis: CreditAnalyzer                                          *)
(* ====================================================================== *)
\* Bounds: the samples of a metric, the entries of a collection
MaxSamples == 3
MaxStatements == 2

\* A sample value is <<>> (null) or <<v>> with v an amount.
Amounts == {-100, 0, 89, 90, 95, 100, 110, 111, 130}
SampleValues == {<<>>} \cup {<<v>> : v \in Amounts}

Abs(x) == IF x < 0 THEN -x ELSE x

\* Math.round(changePercent * 100) / 100
Round2(q) == Rat((200 * q.num + q.den) \div (2 * q.den), 100)

\* ((lastValue - firstValue) / Math.abs(firstValue)) * 100
ChangePercent(firstValue, lastValue) ==
  Rat((lastValue - firstValue) * 100, Abs(firstValue))

\* if (changePercent > 10) ... else if (changePercent < -10) ... else
TrendOfInclusive(changePercent) ==
  IF RatLeq(Num(10), changePercent) THEN "increasing"
  ELSE IF RatLeq(changePercent, Num(-10)) THEN "decreasing"
  ELSE "stable"

TrendOf(changePercent) ==
  IF RatLess(Num(10), changePercent) THEN "increasing"
  ELSE IF RatLess(changePercent, Num(-10)) THEN "decreasing"
  ELSE "stable"

\* data.filter(d => d.value !== null && d.value !== undefined && !isNaN(d.value))
RECURSIVE ValidData(_)
ValidData(data) ==
  IF data = <<>> THEN <<>>
  ELSE (IF Head(data).value = <<>> THEN <<>> ELSE <<Head(data)>>)
       \o ValidData(Tail(data))

InsufficientData(label) ==
  [trend |-> "insufficient_data", changePercent |-> Num(0), periods |-> <<>>,
   label |-> label]

\* calculateTrend(data, label)
CalculateTrend(data, label) ==
  IF Len(data) < 2 \/ Len(ValidData(data)) < 2 THEN InsufficientData(label)
  ELSE LET validData == ValidData(data)
           firstValue == OrZero(validData[1].value)
           lastValue == OrZero(validData[Len(validData)].value)
           changePercent == IF firstValue # 0 THEN ChangePercent(firstValue, lastValue)
                            ELSE IF lastValue > 0 THEN Num(100)
                            ELSE Num(0)
           trend == IF firstValue # 0 THEN TrendOf(changePercent)
                    ELSE IF lastValue > 0 THEN "increasing"
                    ELSE "stable"
       IN [trend |-> trend, changePercent |-> Round2(changePercent),
           periods |-> [i \in 1..Len(validData) |-> validData[i].period],
           label |-> label]

\* the initial value of each entry of trends
StableTrend(label) ==
  [trend |-> "stable", changePercent |-> Num(0), periods |-> <<>>, label |-> label]

\* sortedPL.map(pl => ({ period: pl.period, value: pl.revenue || 0 }))
Samples(sorted, field) ==
  [i \in 1..Len(sorted) |->
     [period |-> sorted[i].period, value |-> <<OrZero(sorted[i][field])>>]]

\* one metric of analyzeFinancialTrends: computed from the sorted collection
\* only if the collection has two entries or more
Metric(collection, field, label) ==
  IF Len(collection) >= 2
  THEN {CalculateTrend(Samples(sorted, field), label) : sorted \in Sorts(collection)}
  ELSE {StableTrend(label)}

\* analyzeFinancialTrends(groupedData): the values it can return
AnalyzeFinancialTrends(groupedData) ==
  [revenue : Metric(groupedData.profitLossStatements, "revenue", "Revenue"),
   profitability : Metric(groupedData.profitLossStatements, "netIncome", "Profitability"),
   assets : Metric(groupedData.balanceSheets, "totalAssets", "Assets"),
   liquidity : Metric(groupedData.bankStatements, "balance", "Liquidity")]

\* const totalStatements = profitLoss + balanceSheets + cashFlow lengths
TotalStatementsWithBank(groupedData) ==
  Len(groupedData.profitLossStatements) + Len(groupedData.balanceSheets)
    + Len(groupedData.cashFlowStatements) + Len(groupedData.bankStatements)

TotalStatements(groupedData) ==
  Len(groupedData.profitLossStatements) + Len(groupedData.balanceSheets)
    + Len(groupedData.cashFlowStatements)

\* periodsSet.add(period) for the entries of a collection whose period is
\* neither empty nor the placeholder of a missing period
RECURSIVE AddPeriods(_, _)
AddPeriods(periodsSet, collection) ==
  IF collection = <<>> THEN periodsSet
  ELSE LET period == Head(collection).period
           added == IF period = <<>> \/ period = UnknownPeriod
                       \/ \E i \in 1..Len(periodsSet) : periodsSet[i] = period
                    THEN periodsSet
                    ELSE Append(periodsSet, period)
       IN AddPeriods(added, Tail(collection))

\* Array.from(periodsSet): the periods in the order of their first insertion
PeriodsAnalyzed(groupedData) ==
  AddPeriods(AddPeriods(AddPeriods(AddPeriods(<<>>,
    groupedData.profitLossStatements), groupedData.balanceSheets),
    groupedData.bankStatements), groupedData.cashFlowStatements)

ProfitLossInsight == "Multiple profit & loss statements available for trend analysis"
BalanceSheetInsight == "Multiple balance sheets enable asset and liability trend evaluation"
BankInsight == "Comprehensive banking history provides strong cash flow insights"

\* the least numbers of entries for which an insight is pushed
ProfitLossInsightMin == 2
BalanceSheetInsightMin == 2
BankInsightMin == 3

KeyInsights(groupedData) ==
  (IF Len(groupedData.profitLossStatements) >= ProfitLossInsightMin
   THEN <<ProfitLossInsight>> ELSE <<>>)
  \o (IF Len(groupedData.balanceSheets) >= BalanceSheetInsightMin
      THEN <<BalanceSheetInsight>> ELSE <<>>)
  \o (IF Len(groupedData.bankStatements) >= BankInsightMin
      THEN <<BankInsight>> ELSE <<>>)

\* the consistency score and the data quality
DataQuality(groupedData) ==
  IF TotalStatements(groupedData) >= 6
  THEN [consistencyScore |-> Rat(9, 10), dataQuality |-> "excellent"]
  ELSE IF TotalStatements(groupedData) >= 3
  THEN [consistencyScore |-> Rat(7, 10), dataQuality |-> "good"]
  ELSE [consistencyScore |-> Rat(4, 10), dataQuality |-> "limited"]

\* generateMultiPeriodAnalysis(groupedData)
GenerateMultiPeriodAnalysis(groupedData) ==
  [periodsAnalyzed |-> PeriodsAnalyzed(groupedData),
   consistencyScore |-> DataQuality(groupedData).consistencyScore,
   dataQuality |-> DataQuality(groupedData).dataQuality,
   keyInsights |-> KeyInsights(groupedData)]

\* the inputs: samples for calculateTrend; collections whose k-th entry
\* holds the k-th of a row of values for analyzeFinancialTrends; collections
\* of each length for generateMultiPeriodAnalysis.  The entries of a
\* collection carry one year each, in order (the balance sheet's asOfDate is
\* its period).
TrendInputs ==
  UNION {[1..n -> [period : {<<"Q2">>}, value : SampleValues]] : n \in 0..MaxSamples}

EntryValues == {<<>>, <<100>>, <<130>>}

\* the period of the k-th entry of a collection: one year after the other
PeriodAt(k) ==
  <<"December", IF k = 1 THEN "2020" ELSE IF k = 2 THEN "2021"
                ELSE IF k = 3 THEN "2022" ELSE "2023">>

Statements(n, values) ==
  [k \in 1..n |->
     [period |-> PeriodAt(k), revenue |-> values[k], netIncome |-> values[k],
      totalAssets |-> values[k], balance |-> values[k]]]

AnalyzeInputs ==
  {[profitLossStatements |-> Statements(pl, values),
    balanceSheets |-> Statements(bs, values),
    bankStatements |-> Statements(bank, values)] :
     pl \in 0..MaxSamples, bs \in 0..MaxSamples, bank \in 0..MaxSamples,
     values \in [1..MaxSamples -> EntryValues]}

QualityInputs ==
  {[profitLossStatements |-> Statements(pl, [k \in 1..pl |-> <<100>>]),
    balanceSheets |-> Statements(bs, [k \in 1..bs |-> <<100>>]),
    cashFlowStatements |-> Statements(cf, [k \in 1..cf |-> <<100>>]),
    bankStatements |-> Statements(bank, [k \in 1..bank |-> <<100>>]),
    creditReports |-> Statements(credit, [k \in 1..credit |-> <<100>>])] :
     pl \in 0..MaxStatements, bs \in 0..MaxStatements, cf \in 0..MaxStatements,
     bank \in 0..MaxStatements, credit \in 0..MaxStatements}

AnalyzerCall(fn, input) ==
  [fn |-> fn, input |-> input, status |-> "running", result |-> <<>>]

AnalyzerInit ==
  /\ ServerIdle
  /\ \/ \E data \in TrendInputs : call = AnalyzerCall("calculateTrend", data)
     \/ \E groupedData \in AnalyzeInputs :
          call = AnalyzerCall("analyzeFinancialTrends", groupedData)
     \/ \E groupedData \in QualityInputs :
          call = AnalyzerCall("generateMultiPeriodAnalysis", groupedData)

CalculateTrendReturns ==
  /\ call.fn = "calculateTrend" /\ call.status = "running"
  /\ call' = [call EXCEPT !.status = "returned",
                          !.result = CalculateTrend(call.input, "Revenue")]
  /\ UNCHANGED server

AnalyzeFinancialTrendsReturns ==
  /\ call.fn = "analyzeFinancialTrends" /\ call.status = "running"
  /\ \E trends \in AnalyzeFinancialTrends(call.input) :
       call' = [call EXCEPT !.status = "returned", !.result = trends]
  /\ UNCHANGED server

GenerateMultiPeriodAnalysisReturns ==
  /\ call.fn = "generateMultiPeriodAnalysis" /\ call.status = "running"
  /\ call' = [call EXCEPT !.status = "returned",
                          !.result = GenerateMultiPeriodAnalysis(call.input)]
  /\ UNCHANGED server

AnalyzerNext ==
  \/ CalculateTrendReturns
  \/ AnalyzeFinancialTrendsReturns
  \/ GenerateMultiPeriodAnalysisReturns

AnalyzerSpec == AnalyzerInit /\ [][AnalyzerNext]_vars

(* ---------------------------------------------------------------------- *)
(* Properties of the trend analysis                                        *)
(* ---------------------------------------------------------------------- *)
CallReturned(fn) == call.fn = fn /\ call.status = "returned"

\* the usable samples of a collection: the entries whose value is not null
Usable(collection, field) ==
  {i \in 1..Len(collection) : collection[i][field] # <<>>}

\* the metrics with their source collection and field
MetricSources ==
  {<<"revenue", "profitLossStatements", "revenue">>,
   <<"profitability", "profitLossStatements", "netIncome">>,
   <<"assets", "balanceSheets", "totalAssets">>,
   <<"liquidity", "bankStatements", "balance">>}

\* C18: analyzeTrends returns trend insufficient_data with changePercent 0
\* for every metric (revenue, profitability, assets, liquidity) whose source
\* collection provides fewer than 2 usable samples, an empty collection and
\* a collection with exactly one entry included.
C18_InsufficientData ==
  CallReturned("analyzeFinancialTrends") =>
    \A m \in MetricSources :
      Cardinality(Usable(call.input[m[2]], m[3])) < 2 =>
        /\ call.result[m[1]].trend = "insufficient_data"
        /\ call.result[m[1]].changePercent = Num(0)

\* the non-null values of the samples, in order
RECURSIVE UsableValues(_)
UsableValues(data) ==
  IF data = <<>> THEN <<>>
  ELSE Head(data).value \o UsableValues(Tail(data))

\* C19: with at least 2 usable samples and first # 0, the trend is
\* increasing iff changePercent = (last - first)/|first| x 100 exceeds 10,
\* decreasing iff it is below -10, stable otherwise (exactly +10 and -10 are
\* stable; [100,130] gives increasing 30.00, [100,95] gives stable); with
\* first = 0 and last > 0 the result is increasing with changePercent 100.
C19_TrendThresholds ==
  CallReturned("calculateTrend") =>
    LET usable == UsableValues(call.input)
        first == usable[1]
        last == usable[Len(usable)]
        change == (last - first) * 100
    IN Len(usable) >= 2 =>
         /\ first # 0 =>
              /\ call.result.trend = "increasing" <=> change > 10 * Abs(first)
              /\ call.result.trend = "decreasing" <=> change < -10 * Abs(first)
              /\ call.result.trend \in {"increasing", "decreasing", "stable"}
              \* changePercent is the quotient rounded to two decimals
              /\ call.result.changePercent.num * 100 * Abs(first) * 2
                   <= (change * 100 * 2 + Abs(first)) * call.result.changePercent.den
              /\ (change * 100 * 2 - Abs(first)) * call.result.changePercent.den
                   < call.result.changePercent.num * 100 * Abs(first) * 2
              /\ (first = 100 /\ last = 130) =>
                   call.result.changePercent = Num(30)
         /\ (first = 0 /\ last > 0) =>
              /\ call.result.trend = "increasing"
              /\ call.result.changePercent = Num(100)

\* a rise of exactly 10 percent reported stable, next to the spec's samples
C19_Witness ==
  /\ CallReturned("calculateTrend")
  /\ UsableValues(call.input) = <<100, 110>>
  /\ call.result.trend = "stable"
  /\ call.result.changePercent = Num(10)

\* C20: dataQuality depends only on the total T of profit-loss,
\* balance-sheet and cash-flow entries: excellent with consistencyScore 0.9
\* when T >= 6, good with 0.7 when 3 <= T <= 5, limited with 0.4 when
\* T <= 2; bank statements and credit reports do not change it.
C20_DataQuality ==
  CallReturned("generateMultiPeriodAnalysis") =>
    LET T == Len(call.input.profitLossStatements)
               + Len(call.input.balanceSheets)
               + Len(call.input.cashFlowStatements)
    IN /\ T >= 6 => /\ call.result.dataQuality = "excellent"
                    /\ call.result.consistencyScore = Rat(9, 10)
       /\ (3 <= T /\ T <= 5) => /\ call.result.dataQuality = "good"
                                /\ call.result.consistencyScore = Rat(7, 10)
       /\ T <= 2 => /\ call.result.dataQuality = "limited"
                    /\ call.result.consistencyScore = Rat(4, 10)

\* two entries of the three counted kinds rated limited although bank
\* statements and credit reports are present
C20_Witness ==
  /\ CallReturned("generateMultiPeriodAnalysis")
  /\ Len(call.input.profitLossStatements) = 2
  /\ Len(call.input.balanceSheets) = 0
  /\ Len(call.input.cashFlowStatements) = 0
  /\ Len(call.input.bankStatements) = 2
  /\ Len(call.input.creditReports) = 2
  /\ call.result.dataQuality = "limited"

(* ---------------------------------------------------------------------- *)
(* Further properties of the structured-text recovery                      *)
(* ---------------------------------------------------------------------- *)
\* the candidates of the code-fence strategy, in the order of its patterns
FenceCandidates(s) ==
  (IF FenceMatches(s, "J") # {} THEN <<FenceCapture(s, "J")>> ELSE <<>>)
  \o (IF FenceMatches(s, "F") # {} THEN <<FenceCapture(s, "F")>> ELSE <<>>)

\* C23: the cascade tries its strategies in the documented order and
\* returns the result of the first one that parses; a failed candidate
\* inside the code-fence or the balanced-brace strategy never escapes the
\* cascade and never causes a later candidate or strategy to be skipped; the
\* balanced-brace strategy tries at most 3 candidates, longest first.
C23_NoCandidateSkipped ==
  Finished =>
    LET s == call.cleaned
        fences == FenceCandidates(s)
        braces == SortByLength(BraceMatches(s, 1))
    IN /\ call.status = "returned" =>
            /\ \A k \in 1..(call.method - 1) : ~Method(k, s).ok
            /\ call.value = Method(call.method, s).value
       /\ (~JsonParse(s).ok /\ \E i \in 1..Len(fences) : JsonParse(fences[i]).ok) =>
            /\ call.status = "returned" /\ call.method = 2
            /\ \E i \in 1..Len(fences) :
                 /\ call.value = JsonParse(fences[i]).value
                 /\ \A j \in 1..(i - 1) : ~JsonParse(fences[j]).ok
       /\ (call.status = "returned" /\ call.method = 3) =>
            \E i \in 1..Len(braces) :
              /\ i <= 3
              /\ call.value = JsonParse(braces[i]).value
              /\ \A j \in 1..(i - 1) : ~JsonParse(braces[j]).ok

\* C28: whenever the call returns instead of throwing, the returned value
\* is a key/value record (a JSON object), never null, a number, a string, a
\* boolean or an array, for every text, a text that is itself a valid JSON
\* scalar included.
C28_ReturnsObject ==
  (call.fn = "parse" /\ call.status = "returned") =>
    (call.value # <<>> /\ call.value[1] = "{")

(* ---------------------------------------------------------------------- *)
(* Further properties of the merge and of the grouping                     *)
(* ---------------------------------------------------------------------- *)
\* the pairs (account number, period) of a list of statements
Pairs(statements) ==
  {<<statements[i].accountNumber, statements[i].period>> : i \in 1..Len(statements)}

\* C24: the merge deduplicates bank statements on the composite,
\* exact-match key (account number, period): two statements whose pairs
\* differ in either component are both retained, for all values of the
\* components, values that contain the '-' character included.
C24_DistinctPairsRetained ==
  Merged =>
    Pairs(call.combined.bankStatements) = Pairs(AllStatements(call.extractedResults))

\* C29: group loses no document: every input document contributes at least
\* one entry to the output, to the typed collection of its statement type
\* or to otherDocuments, a document whose type matches a synonym but whose
\* financial sub-record is empty included.
C29_NoDocumentLost ==
  Grouped =>
    \A k \in 1..Len(call.allExtractedData) :
      \E c \in TypedCollections \cup {"otherDocuments"} : From(c, k) # {}

(* ---------------------------------------------------------------------- *)
(* Further properties of the job lifecycle                                 *)
(* ---------------------------------------------------------------------- *)
\* a step of run r: the settling of the call it awaits
RunStep(r) ==
  \/ ConvertThrows(r)
  \/ \E n \in 1..MaxPages : ConvertReturns(r, n)
  \/ \E p \in 0..(MaxPages - 1), outcome \in ModelOutcomes : ExtractSettles(r, p, outcome)
  \/ \E outcome \in SettleKinds : CleanupSettles(r, outcome)

\* the server when every awaited call eventually returns or fails
FairSpec == Spec /\ \A r \in RunIds : WF_vars(RunStep(r) /\ UNCHANGED call)

\* C22: every accepted start(id) eventually brings the job to completed or
\* error, provided every rasterization call and every model call eventually
\* returns or fails: no error raised in the run leaves the job in
\* processing, and each raised error is recorded in the job state.
C22_StartEventuallyEnds ==
  /\ \A id \in DocIds :
       (id \in Jobs /\ documentStatus[id].status = "processing")
         ~> (id \in Jobs /\ documentStatus[id].status \in {"completed", "error"})
  /\ [][\A id \in Jobs :
          RunFailed(id) => /\ documentStatus'[id].status # "processing"
                           /\ event'.detail # NoError
                           /\ StatusResponse(id).error' = event'.detail]_vars

\* a run whose merge raised: the job is in error with the TypeError recorded
C22_Witness ==
  \E id \in Jobs :
    /\ event = EventWith("failed", id, 0, CombineTypeError)
    /\ documentStatus[id].status = "error"
    /\ documentStatus[id].error = CombineTypeError

\* C27: a job whose status is processing or completed carries no error
\* message: after a run ended in error, an accepted start(id) resets the job
\* so that status(id) no longer reports the earlier run's error, during the
\* new run and after it completes.
C27_NoStaleError ==
  \A id \in Jobs :
    documentStatus[id].status \in {"processing", "completed"}
      => StatusResponse(id).error = NoError


(* ---------------------------------------------------------------------- *)
(* Further properties of the trend analysis                                *)
(* ---------------------------------------------------------------------- *)
\* the samples of a collection with the values as its entries carry them
RawSamples(collection, field) ==
  [i \in 1..Len(collection) |->
     [period |-> collection[i].period, value |-> collection[i][field]]]

\* the periods of the entries whose value is not null, in order
RECURSIVE UsablePeriods(_, _)
UsablePeriods(collection, field) ==
  IF collection = <<>> THEN <<>>
  ELSE (IF Head(collection)[field] = <<>> THEN <<>>
        ELSE <<Head(collection).period>>)
       \o UsablePeriods(Tail(collection), field)

\* C25: in analyzeTrends a sample whose metric value is null or missing is
\* removed before the trend is computed: it does not count towards the
\* 2-sample minimum, it is not used as first or last value (it is not taken
\* for 0), and the periods of the result are those of the samples kept.
C25_NullSamplesRemoved ==
  CallReturned("analyzeFinancialTrends") =>
    \A m \in MetricSources :
      LET collection == call.input[m[2]]
          kept == UsablePeriods(collection, m[3])
          values == UsableValues(RawSamples(collection, m[3]))
      IN Len(collection) >= 2 =>
           /\ Len(kept) < 2 => call.result[m[1]].trend = "insufficient_data"
           /\ Len(kept) >= 2 =>
                /\ call.result[m[1]].periods = kept
                /\ call.result[m[1]].changePercent
                     = Round2(ChangePercent(values[1], values[Len(values)]))

\* the number of distinct periods of a collection
DistinctPeriods(collection) ==
  Cardinality({collection[i].period : i \in 1..Len(collection)})

Has(insights, insight) == \E i \in 1..Len(insights) : insights[i] = insight

\* C26: generateMultiPeriodAnalysis emits the insight of a statement type
\* (profit-loss, balance-sheet, bank-statement) exactly when at least 2
\* periods exist for that type, the threshold being 2 for each type.
C26_InsightFromTwoPeriods ==
  CallReturned("generateMultiPeriodAnalysis") =>
    /\ Has(call.result.keyInsights, ProfitLossInsight)
         <=> DistinctPeriods(call.input.profitLossStatements) >= 2
    /\ Has(call.result.keyInsights, BalanceSheetInsight)
         <=> DistinctPeriods(call.input.balanceSheets) >= 2
    /\ Has(call.result.keyInsights, BankInsight)
         <=> DistinctPeriods(call.input.bankStatements) >= 2


(* ====================================================================== *)
(* Grouping followed by the analysis of the grouped collections            *)
(* ====================================================================== *)
\* Bound: the documents of one analysis
MaxPipelineDocs == 2

December2022 == <<"December", "2022">>
December2023 == <<"December", "2023">>

\* the documents: balance sheets and invoices; the sub-record is missing or
\* carries an asOfDate (absent or a December) and the total assets (absent,
\* 100 or 150)
PipelineShapes ==
  [documentType : {"'Balance Sheet'", "'Invoice'"},
   financialInfo : {<<>>} \cup
     {<<[period |-> p, amount |-> a]>> :
        p \in {<<>>, December2022, December2023},
        a \in {<<>>, <<100>>, <<150>>}}]

PipelineInputs ==
  {[k \in 1..Len(shapes) |->
      [documentType |-> shapes[k].documentType,
       financialInfo |-> shapes[k].financialInfo,
       sourceFile |-> k]] :
     shapes \in UNION {[1..n -> PipelineShapes] : n \in 1..MaxPipelineDocs}}

PipelineInit ==
  /\ ServerIdle
  /\ \E allExtractedData \in PipelineInputs :
       call = [fn |-> "recommend", allExtractedData |-> allExtractedData,
               status |-> "grouping", groupedData |-> <<>>,
               financialTrends |-> <<>>, multiPeriodAnalysis |-> <<>>]

\* groupFinancialDocuments(allExtractedData)
PipelineGroups ==
  /\ call.fn = "recommend" /\ call.status = "grouping"
  /\ \E groupedData \in GroupResults(call.allExtractedData) :
       call' = [call EXCEPT !.status = "analyzing", !.groupedData = groupedData]
  /\ UNCHANGED server

\* financialTrends: this.analyzeFinancialTrends(groupedFinancialData)
PipelineTrends ==
  /\ call.fn = "recommend" /\ call.status = "analyzing"
  /\ \E trends \in AnalyzeFinancialTrends(call.groupedData) :
       call' = [call EXCEPT !.status = "summarizing", !.financialTrends = trends]
  /\ UNCHANGED server

\* multiPeriodAnalysis: this.generateMultiPeriodAnalysis(groupedFinancialData)
PipelineSummary ==
  /\ call.fn = "recommend" /\ call.status = "summarizing"
  /\ call' = [call EXCEPT !.status = "returned",
                          !.multiPeriodAnalysis =
                             GenerateMultiPeriodAnalysis(call.groupedData)]
  /\ UNCHANGED server

PipelineNext ==
  \/ PipelineGroups
  \/ PipelineTrends
  \/ PipelineSummary

PipelineSpec == PipelineInit /\ [][PipelineNext]_vars

(* ---------------------------------------------------------------------- *)
(* Properties of the grouping followed by the analysis                     *)
(* ---------------------------------------------------------------------- *)
\* the documents that carry a balance sheet, as pairs of date and assets
RECURSIVE BalanceSheetsOf(_)
BalanceSheetsOf(allExtractedData) ==
  IF allExtractedData = <<>> THEN <<>>
  ELSE LET data == Head(allExtractedData)
       IN (IF data.documentType = "'Balance Sheet'" /\ data.financialInfo # <<>>
           THEN <<<<data.financialInfo[1].period, data.financialInfo[1].amount>>>>
           ELSE <<>>)
          \o BalanceSheetsOf(Tail(allExtractedData))

\* the two balance sheets of the scenario, in either order
TwoDecembers ==
  /\ call.fn = "recommend"
  /\ BalanceSheetsOf(call.allExtractedData)
       \in {<<<<December2022, <<100>>>>, <<December2023, <<150>>>>>>,
            <<<<December2023, <<150>>>>, <<December2022, <<100>>>>>>}

MaxClientDocs == 2
MaxPolls == 2

Terminal == {"completed", "error"}

\* A status poll in flight: the document, the number of the poll, and the
\* answer: "sent" while the request is on its way to the server, then the
\* status the server answered with, or "failed" if the request fails.
Polls(n) ==
  [doc : 1..n, poll : 1..MaxPolls,
   answer : {"sent", "processing", "completed", "error", "failed"}]

\* processDocuments, after the loop that starts each document: a document
\* whose start was accepted is processing and has a poll interval, one whose
\* start failed is in error and has none; the completion check is scheduled
\* and isProcessing is set
ClientInit ==
  /\ ServerIdle
  /\ \E n \in 1..MaxClientDocs : \E started \in [1..n -> BOOLEAN] :
       call = [fn |-> "client",
               documents |-> [d \in 1..n |->
                                IF started[d] THEN "processing" ELSE "error"],
               backend |-> [d \in 1..n |->
                              IF started[d] THEN "processing" ELSE "uploaded"],
               processingIntervals |-> {d \in 1..n : started[d]},
               issued |-> [d \in 1..n |-> 0],
               inFlight |-> {},
               completionCheckInterval |-> TRUE,
               recommending |-> FALSE,
               isProcessing |-> TRUE]

\* the server's run of a document ends
BackendSettles(d) ==
  /\ call.fn = "client" /\ call.backend[d] = "processing"
  /\ \E outcome \in Terminal :
       call' = [call EXCEPT !.backend[d] = outcome]
  /\ UNCHANGED server

\* setInterval(() => pollDocumentStatus(doc.id, backendId), 2000): a tick
\* sends a status request, whether or not earlier ones were answered
PollTick(d) ==
  /\ call.fn = "client" /\ d \in call.processingIntervals
  /\ call.issued[d] < MaxPolls
  /\ call' = [call EXCEPT
       !.issued[d] = @ + 1,
       !.inFlight = @ \cup {[doc |-> d, poll |-> call.issued[d] + 1,
                             answer |-> "sent"]}]
  /\ UNCHANGED server

\* GET /status/:id is answered with the status of that moment, or fails
ServerAnswers(request) ==
  /\ call.fn = "client" /\ request \in call.inFlight
  /\ request.answer = "sent"
  /\ \E answer \in {call.backend[request.doc], "failed"} :
       call' = [call EXCEPT
         !.inFlight = (@ \ {request}) \cup {[request EXCEPT !.answer = answer]}]
  /\ UNCHANGED server

\* pollDocumentStatus after its await: the status of the answer is stored
\* (error if the request failed), and the interval is cleared if it is
\* completed or error
PollResponse(response) ==
  /\ call.fn = "client" /\ response \in call.inFlight
  /\ response.answer # "sent"
  /\ LET status == IF response.answer = "failed" THEN "error"
                   ELSE response.answer
     IN call' = [call EXCEPT
          !.inFlight = @ \ {response},
          !.documents[response.doc] = status,
          !.processingIntervals =
             IF status \in Terminal THEN @ \ {response.doc} ELSE @]
  /\ UNCHANGED server

\* the completion check of every 3 seconds, when all documents of the batch
\* are completed or in error: the check is cleared; with a completed
\* document the recommendation is requested, else isProcessing is cleared
CompletionCheck ==
  /\ call.fn = "client" /\ call.completionCheckInterval
  /\ \A d \in DOMAIN call.documents : call.documents[d] \in Terminal
  /\ LET hasCompletedDocs ==
           \E d \in DOMAIN call.documents : call.documents[d] = "completed"
     IN call' = [call EXCEPT !.completionCheckInterval = FALSE,
                             !.recommending = hasCompletedDocs,
                             !.isProcessing = hasCompletedDocs]
  /\ UNCHANGED server

\* generateCreditRecommendation settles: finally { setIsProcessing(false) }
RecommendationSettles ==
  /\ call.fn = "client" /\ call.recommending
  /\ call' = [call EXCEPT !.recommending = FALSE, !.isProcessing = FALSE]
  /\ UNCHANGED server

ClientNext ==
  \/ \E d \in 1..MaxClientDocs : d \in DOMAIN call.documents /\ BackendSettles(d)
  \/ \E d \in 1..MaxClientDocs : d \in DOMAIN call.documents /\ PollTick(d)
  \/ \E request \in Polls(MaxClientDocs) : ServerAnswers(request)
  \/ \E response \in Polls(MaxClientDocs) : PollResponse(response)
  \/ CompletionCheck
  \/ RecommendationSettles

ClientSpec == ClientInit /\ [][ClientNext]_vars

(* ---------------------------------------------------------------------- *)
(* Properties of the client hook                                           *)
(* ---------------------------------------------------------------------- *)
\* C30: once a document's local status has become completed or error it
\* never goes back to processing: a late response of an earlier status poll
\* does not overwrite the terminal status after polling was stopped, so the
\* completion check finds every document terminal.
C30_TerminalStays ==
  [][call.fn = "client" =>
       \A d \in DOMAIN call.documents :
         call.documents[d] \in Terminal => call'.documents[d] # "processing"]_vars

====
